---------------------------- MODULE Spec2Model ----------------------------
(***************************************************************************)
(* A model of kaosfere/aptdata: the bolt-backed airport database.  The     *)
(* store is a set of named buckets (Airports, Runways, Countries, Regions, *)
(* Meta); the four loaders read CSV files row by row inside one write      *)
(* transaction each; Load chains them and then writes Meta/IsPopulated;    *)
(* Reload deletes the five buckets and calls Load; the Get accessors read  *)
(* the committed store.                                                    *)
(*                                                                         *)
(* Strings are sequences of one-character strings, so that byte order of   *)
(* keys, column parsing and key concatenation are computed, not assumed.   *)
(***************************************************************************)
EXTENDS Integers, Sequences, FiniteSets, TLC

(***************************************************************************)
(* Bounds of the model.                                                    *)
(***************************************************************************)
\* data rows (after the header) in a source file
MaxRows == 2
\* Load/Reload calls in one behaviour
MaxCalls == 2
\* store-level commit failures (disk I/O) injected in one behaviour
MaxFaults == 1
\* width of the model's integers, standing for the 64 of ParseInt(s, 10, 64)
IntBits == 12
\* msgpack items in a value found under Meta in an existing file
MaxBytes == 2
\* the longest text of a numeric column whose parsing is checked
MaxText == 4

(***************************************************************************)
(* Bytes and strings.                                                      *)
(***************************************************************************)
\* the byte value of a character (ASCII)
Ord(c) ==
    CASE c = "+" -> 43 [] c = "-" -> 45 [] c = "." -> 46 [] c = "/" -> 47
      [] c = "0" -> 48 [] c = "1" -> 49 [] c = "2" -> 50 [] c = "3" -> 51
      [] c = "4" -> 52 [] c = "5" -> 53 [] c = "6" -> 54 [] c = "7" -> 55
      [] c = "8" -> 56 [] c = "9" -> 57
      [] c = "A" -> 65 [] c = "B" -> 66 [] c = "C" -> 67 [] c = "E" -> 69
      [] c = "K" -> 75 [] c = "L" -> 76 [] c = "N" -> 78 [] c = "R" -> 82
      [] c = "S" -> 83 [] c = "U" -> 85 [] c = "W" -> 87 [] c = "Z" -> 90
      [] c = "h" -> 104 [] c = "x" -> 120
      [] OTHER -> 63

\* bytes.Compare(a, b) < 0: the order in which a bucket keeps its keys
RECURSIVE BytesLess(_, _)
BytesLess(a, b) ==
    IF a = <<>> THEN b # <<>>
    ELSE IF b = <<>> THEN FALSE
    ELSE IF Ord(Head(a)) < Ord(Head(b)) THEN TRUE
    ELSE IF Ord(Head(a)) > Ord(Head(b)) THEN FALSE
    ELSE BytesLess(Tail(a), Tail(b))

(***************************************************************************)
(* strconv.ParseInt(s, 10, 64) and strconv.ParseFloat(s, 64).  Both return *)
(* a value and an error; the loaders drop the error and keep the value.    *)
(***************************************************************************)
IntMax == 2 ^ (IntBits - 1) - 1
IntMin == 0 - 2 ^ (IntBits - 1)

IsDigit(c) == c \in {"0", "1", "2", "3", "4", "5", "6", "7", "8", "9"}

DigitVal(c) == Ord(c) - 48

AllDigits(s) == \A i \in 1..Len(s) : IsDigit(s[i])

\* the digits of s as a number, cut off at cutoff + 1 once it is exceeded
RECURSIVE ParseUint(_, _, _)
ParseUint(s, acc, cutoff) ==
    IF s = <<>> THEN acc
    ELSE IF acc > cutoff THEN cutoff + 1
    ELSE ParseUint(Tail(s), acc * 10 + DigitVal(Head(s)), cutoff)

ParseInt(s) ==
    LET neg == s # <<>> /\ Head(s) = "-"
        signed == s # <<>> /\ Head(s) \in {"+", "-"}
        digits == IF signed THEN Tail(s) ELSE s
        limit == IF neg THEN IntMax + 1 ELSE IntMax
        u == ParseUint(digits, 0, limit)
    IN  IF digits = <<>> \/ ~AllDigits(digits)
          THEN [v |-> 0, err |-> "syntax"]
        ELSE IF u > limit
          THEN [v |-> IF neg THEN IntMin ELSE IntMax, err |-> "range"]
        ELSE [v |-> IF neg THEN 0 - u ELSE u, err |-> ""]

\* position of the first "." in s, or 0
RECURSIVE DotAt(_, _)
DotAt(s, i) ==
    IF i > Len(s) THEN 0 ELSE IF s[i] = "." THEN i ELSE DotAt(s, i + 1)

\* A float64 is kept in tenths: [sign] digits [ "." digits ], the digits after
\* the first fractional one being below the model's resolution.
ParseFloat(s) ==
    LET neg == s # <<>> /\ Head(s) = "-"
        signed == s # <<>> /\ Head(s) \in {"+", "-"}
        body == IF signed THEN Tail(s) ELSE s
        dot == DotAt(body, 1)
        ip == IF dot = 0 THEN body ELSE SubSeq(body, 1, dot - 1)
        fp == IF dot = 0 THEN <<>> ELSE SubSeq(body, dot + 1, Len(body))
        tenths == ParseUint(ip, 0, IntMax) * 10
                    + (IF fp = <<>> THEN 0 ELSE DigitVal(fp[1]))
    IN  IF (ip = <<>> /\ fp = <<>>) \/ ~AllDigits(ip) \/ ~AllDigits(fp)
          THEN [v |-> 0, err |-> "syntax"]
        ELSE [v |-> IF neg THEN 0 - tenths ELSE tenths, err |-> ""]

(***************************************************************************)
(* msgpack.  An encoded value is a sequence of msgpack items: a struct is  *)
(* a map header followed by (field name, value) pairs in field order; a    *)
(* bool is the single item true or false.  nil bytes are the empty         *)
(* sequence.                                                               *)
(***************************************************************************)
TMap(n) == [t |-> "map", n |-> n]
TKey(name) == [t |-> "key", name |-> name]
TStr(s) == [t |-> "str", s |-> s]
TInt(i) == [t |-> "int", i |-> i]
TF64(f) == [t |-> "f64", f |-> f]
TBool(b) == [t |-> "bool", b |-> b]
TNil == [t |-> "nil"]

\* the item that encodes value v of a field of Go type ty
TokOf(ty, v) ==
    CASE ty = "str" -> TStr(v)
      [] ty = "int" -> TInt(v)
      [] ty = "f64" -> TF64(v)
      [] ty = "bool" -> TBool(v)

\* the Go value an item of type ty decodes to
TokVal(tok) ==
    CASE tok.t = "str" -> tok.s
      [] tok.t = "int" -> tok.i
      [] tok.t = "f64" -> tok.f
      [] tok.t = "bool" -> tok.b

RECURSIVE EncodeFields(_, _, _)
EncodeFields(rec, order, types) ==
    IF order = <<>> THEN <<>>
    ELSE <<TKey(Head(order)), TokOf(types[Head(order)], rec[Head(order)])>>
           \o EncodeFields(rec, Tail(order), types)

\* msgpack.Marshal(&struct)
MarshalStruct(rec, order, types) ==
    <<TMap(Len(order))>> \o EncodeFields(rec, order, types)

\* msgpack.Marshal(bool)
MarshalBool(b) == <<TBool(b)>>

RECURSIVE DecodeFields(_, _, _, _)
DecodeFields(toks, n, rec, types) ==
    IF n = 0 THEN [v |-> rec, err |-> ""]
    ELSE IF Len(toks) < 2 THEN [v |-> rec, err |-> "EOF"]
    ELSE IF toks[1].t # "key" THEN [v |-> rec, err |-> "invalid code"]
    ELSE IF toks[1].name \notin DOMAIN types
      THEN DecodeFields(SubSeq(toks, 3, Len(toks)), n - 1, rec, types)
    ELSE IF toks[2].t # types[toks[1].name]
      THEN [v |-> rec, err |-> "invalid code"]
    ELSE DecodeFields(SubSeq(toks, 3, Len(toks)), n - 1,
                      [rec EXCEPT ![toks[1].name] = TokVal(toks[2])], types)

\* msgpack.Unmarshal(bytes, &struct), the struct holding zero on entry
UnmarshalStruct(bytes, zero, types) ==
    IF bytes = <<>> THEN [v |-> zero, err |-> "EOF"]
    ELSE IF bytes[1].t = "nil" THEN [v |-> zero, err |-> ""]
    ELSE IF bytes[1].t # "map" THEN [v |-> zero, err |-> "invalid code"]
    ELSE DecodeFields(Tail(bytes), bytes[1].n, zero, types)

\* msgpack.Unmarshal(bytes, &bool), the bool holding false on entry
UnmarshalBool(bytes) ==
    IF bytes = <<>> THEN [v |-> FALSE, err |-> "EOF"]
    ELSE IF bytes[1].t = "bool" THEN [v |-> bytes[1].b, err |-> ""]
    ELSE [v |-> FALSE, err |-> "invalid code"]

(***************************************************************************)
(* The four record types.                                                  *)
(***************************************************************************)
AirportOrder ==
    <<"Code", "Name", "Latitude", "Longitude", "Elevation", "City", "Region",
      "Country", "Continent", "Iata">>
AirportTypes ==
    [Code |-> "str", Name |-> "str", Latitude |-> "f64", Longitude |-> "f64",
     Elevation |-> "int", City |-> "str", Region |-> "str", Country |-> "str",
     Continent |-> "str", Iata |-> "str"]
AirportZero ==
    [Code |-> <<>>, Name |-> <<>>, Latitude |-> 0, Longitude |-> 0,
     Elevation |-> 0, City |-> <<>>, Region |-> <<>>, Country |-> <<>>,
     Continent |-> <<>>, Iata |-> <<>>]

RunwayOrder ==
    <<"Airport", "Length", "Width", "Surface", "Lighted", "Closed",
      "End1Name", "End1Latitude", "End1Longitude", "End1Elevation",
      "End1Heading", "End1Displaced",
      "End2Name", "End2Latitude", "End2Longitude", "End2Elevation",
      "End2Heading", "End2Displaced">>
RunwayTypes ==
    [Airport |-> "str", Length |-> "int", Width |-> "int", Surface |-> "str",
     Lighted |-> "bool", Closed |-> "bool",
     End1Name |-> "str", End1Latitude |-> "f64", End1Longitude |-> "f64",
     End1Elevation |-> "int", End1Heading |-> "int", End1Displaced |-> "int",
     End2Name |-> "str", End2Latitude |-> "f64", End2Longitude |-> "f64",
     End2Elevation |-> "int", End2Heading |-> "int", End2Displaced |-> "int"]
RunwayZero ==
    [Airport |-> <<>>, Length |-> 0, Width |-> 0, Surface |-> <<>>,
     Lighted |-> FALSE, Closed |-> FALSE,
     End1Name |-> <<>>, End1Latitude |-> 0, End1Longitude |-> 0,
     End1Elevation |-> 0, End1Heading |-> 0, End1Displaced |-> 0,
     End2Name |-> <<>>, End2Latitude |-> 0, End2Longitude |-> 0,
     End2Elevation |-> 0, End2Heading |-> 0, End2Displaced |-> 0]

CountryOrder == <<"Code", "Name">>
CountryTypes == [Code |-> "str", Name |-> "str"]
CountryZero == [Code |-> <<>>, Name |-> <<>>]

RegionOrder == <<"Code", "LocalCode", "Name", "Country">>
RegionTypes ==
    [Code |-> "str", LocalCode |-> "str", Name |-> "str", Country |-> "str"]
RegionZero ==
    [Code |-> <<>>, LocalCode |-> <<>>, Name |-> <<>>, Country |-> <<>>]

(***************************************************************************)
(* A CSV record is a sequence of fields; record[i] of the Go code, which   *)
(* counts from 0, is Col(record, i).                                       *)
(***************************************************************************)
Col(record, i) == record[i + 1]

\* the highest column each loader reads
AirportsMaxCol == 13
RunwaysMaxCol == 19
CountriesMaxCol == 2
RegionsMaxCol == 5

\* the Airport built from a record of airports.csv
AirportOfRecord(record) ==
    [Code |-> Col(record, 1),
     Name |-> Col(record, 3),
     Latitude |-> ParseFloat(Col(record, 4)).v,
     Longitude |-> ParseFloat(Col(record, 5)).v,
     Elevation |-> ParseInt(Col(record, 6)).v,
     City |-> Col(record, 10),
     Region |-> Col(record, 9),
     Country |-> Col(record, 8),
     Continent |-> Col(record, 7),
     Iata |-> Col(record, 13)]

\* the Runway built from a record of runways.csv: a positional struct
\* literal, whose tenth value is end1Heading and eleventh end1Elevation
RunwayOfRecord(record) ==
    [Airport |-> Col(record, 2),
     Length |-> ParseInt(Col(record, 3)).v,
     Width |-> ParseInt(Col(record, 4)).v,
     Surface |-> Col(record, 5),
     Lighted |-> (Col(record, 6) = <<"1">>),
     Closed |-> (Col(record, 7) = <<"1">>),
     End1Name |-> Col(record, 8),
     End1Latitude |-> ParseFloat(Col(record, 9)).v,
     End1Longitude |-> ParseFloat(Col(record, 10)).v,
     End1Elevation |-> ParseInt(Col(record, 12)).v,
     End1Heading |-> ParseInt(Col(record, 11)).v,
     End1Displaced |-> ParseInt(Col(record, 13)).v,
     End2Name |-> Col(record, 14),
     End2Latitude |-> ParseFloat(Col(record, 15)).v,
     End2Longitude |-> ParseFloat(Col(record, 16)).v,
     End2Elevation |-> ParseInt(Col(record, 17)).v,
     End2Heading |-> ParseInt(Col(record, 18)).v,
     End2Displaced |-> ParseInt(Col(record, 19)).v]

\* the key of a runway inside its airport's bucket
RunwayKey(record) == Col(record, 8) \o <<"/">> \o Col(record, 14)

CountryOfRecord(record) ==
    [Code |-> Col(record, 1), Name |-> Col(record, 2)]

RegionOfRecord(record) ==
    [Code |-> Col(record, 1),
     LocalCode |-> Col(record, 2),
     Name |-> Col(record, 3),
     Country |-> Col(record, 5)]

(***************************************************************************)
(* The bolt store.  A top-level bucket is there or not (tx.Bucket gives    *)
(* nil); kv maps its keys to values.  In Runways the keys are airport      *)
(* codes and each value is a nested bucket, again a map from keys to       *)
(* values.                                                                 *)
(***************************************************************************)
BucketNames == {"Airports", "Runways", "Countries", "Regions", "Meta"}

NilBucket == [ok |-> FALSE, kv |-> <<>>]

EmptyStore == [n \in BucketNames |-> NilBucket]

\* a map with key k set to v
MapPut(kv, k, v) ==
    [x \in (DOMAIN kv) \cup {k} |-> IF x = k THEN v ELSE kv[x]]

\* tx.CreateBucketIfNotExists(name)
CreateBucketIfNotExists(st, name) ==
    IF st[name].ok THEN st
    ELSE [st EXCEPT ![name] = [ok |-> TRUE, kv |-> <<>>]]

\* a variant for checking: a deletion that reports success and deletes
\* nothing
DeleteBucketKeeps(st, name) == [st |-> st, err |-> ""]

\* tx.DeleteBucket(name)
DeleteBucket(st, name) ==
    IF st[name].ok
      THEN [st |-> [st EXCEPT ![name] = NilBucket], err |-> ""]
    ELSE [st |-> st, err |-> "bucket not found"]

\* b.Put(key, value) on top-level bucket name; bolt refuses an empty key
Put(st, name, key, value) ==
    IF key = <<>> THEN [st |-> st, err |-> "key required"]
    ELSE [st |-> [st EXCEPT ![name].kv = MapPut(@, key, value)], err |-> ""]

\* a variant for checking: b.CreateBucket in place of
\* b.CreateBucketIfNotExists, which refuses a bucket that is there
CreateSubBucket(st, name, sub) ==
    IF sub = <<>> THEN [st |-> st, err |-> "bucket name required"]
    ELSE IF sub \in DOMAIN st[name].kv
      THEN [st |-> st, err |-> "bucket already exists"]
    ELSE [st |-> [st EXCEPT ![name].kv = MapPut(@, sub, <<>>)], err |-> ""]

\* b.CreateBucketIfNotExists(sub) on top-level bucket name; bolt refuses an
\* empty bucket name
CreateSubBucketIfNotExists(st, name, sub) ==
    IF sub = <<>> THEN [st |-> st, err |-> "bucket name required"]
    ELSE IF sub \in DOMAIN st[name].kv THEN [st |-> st, err |-> ""]
    ELSE [st |-> [st EXCEPT ![name].kv = MapPut(@, sub, <<>>)], err |-> ""]

\* a variant for checking: the nested bucket is made, the record not written
SubPutDrops(st, name, sub, key, value) == [st |-> st, err |-> ""]

\* b2.Put(key, value) on the nested bucket sub of top-level bucket name
SubPut(st, name, sub, key, value) ==
    IF key = <<>> THEN [st |-> st, err |-> "key required"]
    ELSE [st |-> [st EXCEPT ![name].kv[sub] = MapPut(@, key, value)],
          err |-> ""]

\* b.Get(key): nil when the key is absent
Get(b, key) == IF key \in DOMAIN b.kv THEN b.kv[key] ELSE <<>>

(***************************************************************************)
(* encoding/csv.  A file is a sequence of records, the header first.  The  *)
(* reader keeps FieldsPerRecord: 0 means "take it from the first record",  *)
(* a negative value means "do not check".                                  *)
(***************************************************************************)
NewReader == [fpr |-> 0, pos |-> 1]

\* r.Read(): the record, the error, and the reader afterwards
Read(r, lines) ==
    IF r.pos > Len(lines)
      THEN [record |-> <<>>, err |-> "EOF", r |-> r]
    ELSE LET record == lines[r.pos]
             fpr == IF r.fpr = 0 THEN Len(record) ELSE r.fpr
         IN  [record |-> record,
              err |-> IF fpr > 0 /\ Len(record) # fpr
                        THEN "wrong number of fields" ELSE "",
              r |-> [fpr |-> fpr, pos |-> r.pos + 1]]

(***************************************************************************)
(* The body of each loader's row loop: build the record, encode it, write  *)
(* it.  The outcome is "ok", "error" (the closure returns an error) or     *)
(* "panic" (a column index beyond the record).                             *)
(***************************************************************************)
RowOk(st) == [st |-> st, outcome |-> "ok", err |-> ""]
RowError(st, err) == [st |-> st, outcome |-> "error", err |-> err]
RowPanic(st) == [st |-> st, outcome |-> "panic", err |-> "index out of range"]

AirportsPutRecord(st, record) ==
    IF Len(record) <= AirportsMaxCol THEN RowPanic(st)
    ELSE LET m == MarshalStruct(AirportOfRecord(record), AirportOrder,
                                AirportTypes)
             p == Put(st, "Airports", Col(record, 1), m)
         IN  IF p.err # "" THEN RowError(st, "database put") ELSE RowOk(p.st)

\* a variant for checking: the nested bucket named by column 1
\* (airport_ref) in place of column 2 (airport_ident)
RunwaysPutRecordByRef(st, record) ==
    IF Len(record) <= RunwaysMaxCol THEN RowPanic(st)
    ELSE LET m == MarshalStruct(RunwayOfRecord(record), RunwayOrder,
                                RunwayTypes)
             c == CreateSubBucketIfNotExists(st, "Runways", Col(record, 1))
             p == SubPut(c.st, "Runways", Col(record, 1), RunwayKey(record), m)
         IN  IF c.err # "" THEN RowError(st, "bucket creation")
             ELSE IF p.err # "" THEN RowError(st, "database put")
             ELSE RowOk(p.st)

RunwaysPutRecord(st, record) ==
    IF Len(record) <= RunwaysMaxCol THEN RowPanic(st)
    ELSE LET m == MarshalStruct(RunwayOfRecord(record), RunwayOrder,
                                RunwayTypes)
             c == CreateSubBucketIfNotExists(st, "Runways", Col(record, 2))
             p == SubPut(c.st, "Runways", Col(record, 2), RunwayKey(record), m)
         IN  IF c.err # "" THEN RowError(st, "bucket creation")
             ELSE IF p.err # "" THEN RowError(st, "database put")
             ELSE RowOk(p.st)

\* a variant for checking: the key taken from column 0 (id) in place of
\* column 1 (code)
CountriesPutRecordById(st, record) ==
    IF Len(record) <= CountriesMaxCol THEN RowPanic(st)
    ELSE LET m == MarshalStruct(CountryOfRecord(record), CountryOrder,
                                CountryTypes)
             p == Put(st, "Countries", Col(record, 0), m)
         IN  IF p.err # "" THEN RowError(st, "database put") ELSE RowOk(p.st)

CountriesPutRecord(st, record) ==
    IF Len(record) <= CountriesMaxCol THEN RowPanic(st)
    ELSE LET m == MarshalStruct(CountryOfRecord(record), CountryOrder,
                                CountryTypes)
             p == Put(st, "Countries", Col(record, 1), m)
         IN  IF p.err # "" THEN RowError(st, "database put") ELSE RowOk(p.st)

RegionsPutRecord(st, record) ==
    IF Len(record) <= RegionsMaxCol THEN RowPanic(st)
    ELSE LET m == MarshalStruct(RegionOfRecord(record), RegionOrder,
                                RegionTypes)
             p == Put(st, "Regions", Col(record, 1), m)
         IN  IF p.err # "" THEN RowError(st, "database put") ELSE RowOk(p.st)

PutRecord(kind, st, record) ==
    CASE kind = "Airports" -> AirportsPutRecord(st, record)
      [] kind = "Runways" -> RunwaysPutRecord(st, record)
      [] kind = "Countries" -> CountriesPutRecord(st, record)
      [] kind = "Regions" -> RegionsPutRecord(st, record)

\* the order in which Load runs the loaders
LoadOrder == <<"Airports", "Runways", "Countries", "Regions">>

\* the csv reader each loader starts with: loadRunways sets
\* FieldsPerRecord = -1, the others leave it 0
LoaderReader(kind) ==
    IF kind = "Runways" THEN [NewReader EXCEPT !.fpr = -1] ELSE NewReader

(***************************************************************************)
(* Source files.  A data directory holds the four files; a file may be     *)
(* missing (os.Open fails).                                                *)
(***************************************************************************)
KS == <<"K", "S">>
KB == <<"K", "B">>
US == <<"U", "S">>
CA == <<"C", "A">>
ZZ == <<"Z", "Z">>
X == <<"x">>

\* a header of n columns
Header(n) == [i \in 1..n |-> <<"h">>]

\* a row of airports.csv: id, ident, type, name, latitude_deg,
\* longitude_deg, elevation_ft, continent, iso_country, iso_region,
\* municipality, scheduled_service, gps_code, iata_code, local_code,
\* home_link, wikipedia_link, keywords
AirportRow(ident, name, elev) ==
    <<<<"1">>, ident, X, name, <<"4", ".", "5">>, <<"-", "1", ".", "2">>,
      elev, <<"N", "A">>, US, <<"U", "W">>, <<"S">>, X, X,
      <<"S", "E", "A">>, X, X, X, X>>

\* a row of runways.csv: id, airport_ref, airport_ident, length_ft,
\* width_ft, surface, lighted, closed, le_ident, le_latitude_deg,
\* le_longitude_deg, le_elevation_ft, le_heading_degT,
\* le_displaced_threshold_ft, he_ident, he_latitude_deg, he_longitude_deg,
\* he_elevation_ft, he_heading_degT, he_displaced_threshold_ft
RunwayRow(apt, len, e1, e2) ==
    <<<<"1">>, <<"2">>, apt, len, <<"1", "5">>, <<"A", "S">>, <<"1">>,
      <<"0">>, e1, <<"4", ".", "5">>, <<"-", "1", ".", "2">>, <<"4", "3">>,
      <<"1", "6">>, <<"7">>, e2, <<"4", ".", "6">>, <<"-", "1", ".", "3">>,
      <<"4", "2">>, <<"3", "4">>, <<"9">>>>

\* a row of countries.csv: id, code, name, continent, wikipedia_link,
\* keywords
CountryRow(code, name) == <<<<"1">>, code, name, <<"N", "A">>, X, X>>

\* a row of regions.csv: id, code, local_code, name, continent,
\* iso_country, wikipedia_link, keywords
RegionRow(code, local, name, country) ==
    <<<<"1">>, code, local, name, <<"N", "A">>, country, X, X>>

E16L == <<"1", "6", "L">>
E34R == <<"3", "4", "R">>
E16C == <<"1", "6", "C">>
E34C == <<"3", "4", "C">>

\* a row cut short after two columns
ShortRow == <<<<"1">>, KS>>

AirportRows ==
    {AirportRow(KS, <<"S", "E", "A">>, <<"4", "3">>),
     AirportRow(KS, <<"S", "K">>, X),
     ShortRow}

RunwayRows ==
    {RunwayRow(KS, <<"9", "0">>, E16L, E34R),
     RunwayRow(KS, <<"8", "0">>, E16C, E34C),
     RunwayRow(KS, X, E16L, E34R),
     RunwayRow(KB, <<"7", "0">>, E16L, E34R),
     ShortRow}

CountryRows ==
    {CountryRow(US, <<"U", "S", "A">>),
     CountryRow(US, <<"U", "N">>),
     ShortRow}

RegionRows ==
    {RegionRow(<<"U", "W">>, <<"W">>, <<"W", "A">>, US),
     RegionRow(<<>>, <<"W">>, <<"W", "N">>, US),
     ShortRow}

\* the sequences of at most n elements of S
RECURSIVE SeqsUpTo(_, _)
SeqsUpTo(S, n) ==
    IF n = 0 THEN {<<>>}
    ELSE LET shorter == SeqsUpTo(S, n - 1)
         IN  shorter \cup {Append(q, x) : q \in shorter, x \in S}

NoFile == [open |-> FALSE, lines |-> <<>>]

\* the files a loader may meet: missing, empty, or a header (one of the
\* given widths) and at most MaxRows rows
FilesOf(rows, widths) ==
    {NoFile, [open |-> TRUE, lines |-> <<>>]}
      \cup {[open |-> TRUE, lines |-> <<Header(w)>> \o q] :
              w \in widths, q \in SeqsUpTo(rows, MaxRows)}

\* a directory of well-formed files
BaseDir ==
    [Airports |-> [open |-> TRUE, lines |->
        <<Header(18), AirportRow(KS, <<"S", "E", "A">>, <<"4", "3">>),
          AirportRow(KB, <<"B">>, <<"-", "5">>)>>],
     Runways |-> [open |-> TRUE, lines |->
        <<Header(21), RunwayRow(KS, <<"9", "0">>, E16L, E34R),
          RunwayRow(KS, <<"8", "0">>, E16C, E34C)>>],
     Countries |-> [open |-> TRUE, lines |->
        <<Header(6), CountryRow(US, <<"U", "S", "A">>)>>],
     Regions |-> [open |-> TRUE, lines |->
        <<Header(8), RegionRow(<<"U", "W">>, <<"W">>, <<"W", "A">>, US)>>]]

\* another directory of well-formed files, with other contents
AltDir ==
    [Airports |-> [open |-> TRUE, lines |->
        <<Header(18), AirportRow(KB, <<"B">>, <<"-", "5">>)>>],
     Runways |-> [open |-> TRUE, lines |->
        <<Header(21), RunwayRow(KB, <<"7", "0">>, E16L, E34R),
          RunwayRow(KS, <<"6", "0">>, E16C, E34R)>>],
     Countries |-> [open |-> TRUE, lines |->
        <<Header(6), CountryRow(CA, <<"C">>)>>],
     Regions |-> [open |-> TRUE, lines |->
        <<Header(8), RegionRow(<<"C", "B">>, <<"B">>, <<"B", "C">>, CA)>>]]

\* the directories the first dataDir is drawn from: BaseDir with one of
\* its files replaced
VariedDirs ==
    {[BaseDir EXCEPT !.Airports = f] :
        f \in FilesOf(AirportRows, {18, Len(ShortRow)})}
      \cup {[BaseDir EXCEPT !.Runways = f] : f \in FilesOf(RunwayRows, {21})}
      \cup {[BaseDir EXCEPT !.Countries = f] :
               f \in FilesOf(CountryRows, {6, Len(ShortRow)})}
      \cup {[BaseDir EXCEPT !.Regions = f] :
               f \in FilesOf(RegionRows, {8, Len(ShortRow)})}

DirIds == {1, 2}

(***************************************************************************)
(* The read side.                                                          *)
(***************************************************************************)
IsPopulatedKey == <<"I", "s", "P", "o", "p", "u", "l", "a", "t", "e", "d">>

\* a variant for checking: the key's presence taken for the flag
PopulatedKeyPresent(st) ==
    st["Meta"].ok /\ IsPopulatedKey \in DOMAIN st["Meta"].kv

\* AptDB.Populated on store st
Populated(st) ==
    LET b == st["Meta"]
    IN  IF ~b.ok THEN FALSE
        ELSE UnmarshalBool(Get(b, IsPopulatedKey)).v

\* what a call gives back: outcome is "ok" (nil error), "error" (an error
\* value) or "panic"; val is the sequence of records returned
Ret(outcome, err, val) == [outcome |-> outcome, err |-> err, val |-> val]

\* the body shared by GetAirport, GetCountry and GetRegion: b.Get on the
\* bucket tx.Bucket returned (nil when the bucket is absent), then Unmarshal
GetRecord(st, name, ident, zero, types, what) ==
    LET b == st[name]
        u == UnmarshalStruct(Get(b, ident), zero, types)
    IN  IF ~b.ok THEN Ret("panic", "nil pointer dereference", <<>>)
        ELSE IF u.err # "" THEN Ret("error", what, <<u.v>>)
        ELSE Ret("ok", "", <<u.v>>)

GetAirport(st, ident) ==
    GetRecord(st, "Airports", ident, AirportZero, AirportTypes, "get airport")

GetCountry(st, ident) ==
    GetRecord(st, "Countries", ident, CountryZero, CountryTypes, "get country")

GetRegion(st, ident) ==
    GetRecord(st, "Regions", ident, RegionZero, RegionTypes, "get region")

\* the least key of a non-empty key set, in byte order
MinKey(keys) == CHOOSE k \in keys : \A o \in keys : o = k \/ BytesLess(k, o)

\* b2.ForEach: the keys of a bucket in byte order
RECURSIVE KeysInOrder(_)
KeysInOrder(keys) ==
    IF keys = {} THEN <<>>
    ELSE <<MinKey(keys)>> \o KeysInOrder(keys \ {MinKey(keys)})

\* AptDB.GetRunways: each value of the airport's nested bucket, decoded (the
\* decode error is dropped), in key order
GetRunways(st, ident) ==
    LET b == st["Runways"]
        b2 == b.kv[ident]
        keys == KeysInOrder(DOMAIN b2)
    IN  IF ~b.ok \/ ident \notin DOMAIN b.kv
          THEN Ret("panic", "nil pointer dereference", <<>>)
        ELSE Ret("ok", "",
                 [i \in 1..Len(keys) |->
                    UnmarshalStruct(b2[keys[i]], RunwayZero, RunwayTypes).v])

(***************************************************************************)
(* Write transactions.  db.Update commits what the closure wrote when it   *)
(* returns nil and rolls it back when it returns an error or panics.       *)
(***************************************************************************)
\* a variant for checking: writes that go to the store as they are made,
\* with nothing to roll back
UpdateKeepsWrites(st, t, outcome) == t

\* the committed store after db.Update, the closure having left working
\* copy t of store st with the given outcome
Update(st, t, outcome) == IF outcome = "ok" THEN t ELSE st

\* a variant for checking: "bucket not found" taken for a failure
RECURSIVE DeleteBucketsStrict(_, _)
DeleteBucketsStrict(st, names) ==
    IF names = <<>> THEN [st |-> st, err |-> ""]
    ELSE LET d == DeleteBucket(st, Head(names))
         IN  IF d.err # "" THEN [st |-> d.st, err |-> d.err]
             ELSE DeleteBucketsStrict(d.st, Tail(names))

\* the deletions of Reload: "bucket not found" is not a failure
RECURSIVE DeleteBuckets(_, _)
DeleteBuckets(st, names) ==
    IF names = <<>> THEN [st |-> st, err |-> ""]
    ELSE LET d == DeleteBucket(st, Head(names))
         IN  IF d.err # "" /\ d.err # "bucket not found"
               THEN [st |-> d.st, err |-> d.err]
             ELSE DeleteBuckets(d.st, Tail(names))

\* a variant for checking: Reload that leaves Meta alone
ReloadOrderKeepsMeta == <<"Airports", "Runways", "Countries", "Regions">>

\* the buckets Reload deletes, in the order of its closure
ReloadOrder == <<"Airports", "Runways", "Countries", "Regions", "Meta">>

\* the closure of Load's last transaction
WriteMeta(st) ==
    Put(CreateBucketIfNotExists(st, "Meta"), "Meta", IsPopulatedKey,
        MarshalBool(TRUE))

\* one pass of a loader's row loop on working copy t with reader r:
\* "eof" ends the loop, "ok" goes round again, "error" and "panic" leave
\* the closure
LoopStep(kind, t, r, lines) ==
    LET rd == Read(r, lines)
        \* the record Read gives when it gives one is lines[r.pos]
        w == PutRecord(kind, t, lines[r.pos])
    IN  IF rd.err = "EOF"
          THEN [st |-> t, r |-> rd.r, outcome |-> "eof", err |-> ""]
        ELSE IF rd.err # ""
          THEN [st |-> t, r |-> rd.r, outcome |-> "error", err |-> "read"]
        ELSE [st |-> w.st, r |-> rd.r, outcome |-> w.outcome, err |-> w.err]

\* the row loop run to its end
RECURSIVE Loop(_, _, _, _)
Loop(kind, t, r, lines) ==
    LET s == LoopStep(kind, t, r, lines)
    IN  IF s.outcome = "ok" THEN Loop(kind, s.st, s.r, lines) ELSE s

\* a whole loader on store st, the store committing what it is given:
\* the store afterwards and what the loader gives back
RunLoader(kind, st, file) ==
    LET hdr == Read(LoaderReader(kind), file.lines)
        s == Loop(kind, CreateBucketIfNotExists(st, kind), hdr.r, file.lines)
        outcome == IF s.outcome = "eof" THEN "ok" ELSE s.outcome
    IN  IF ~file.open THEN [st |-> st, outcome |-> "error", err |-> "open"]
        ELSE [st |-> Update(st, s.st, outcome), outcome |-> outcome,
              err |-> s.err]

\* Load on store st from directory dir, the store committing what it is
\* given: the loaders in order, the first failure ending the call, then Meta
RECURSIVE RunLoaders(_, _, _)
RunLoaders(st, dir, kinds) ==
    IF kinds = <<>> THEN [st |-> st, outcome |-> "ok", err |-> ""]
    ELSE LET l == RunLoader(Head(kinds), st, dir[Head(kinds)])
         IN  IF l.outcome # "ok" THEN l
             ELSE RunLoaders(l.st, dir, Tail(kinds))

RunLoad(st, dir) ==
    LET l == RunLoaders(st, dir, LoadOrder)
        w == WriteMeta(l.st)
        outcome == IF w.err = "" THEN "ok" ELSE "error"
    IN  IF l.outcome # "ok" THEN l
        ELSE [st |-> Update(l.st, w.st, outcome), outcome |-> outcome,
              err |-> w.err]

\* Reload on store st from directory dir, the store committing what it is
\* given
RunReload(st, dir) ==
    LET d == DeleteBuckets(st, ReloadOrder)
        outcome == IF d.err = "" THEN "ok" ELSE "error"
    IN  IF d.err # "" THEN [st |-> st, outcome |-> "error", err |-> d.err]
        ELSE RunLoad(Update(st, d.st, outcome), dir)

(***************************************************************************)
(* State.                                                                  *)
(***************************************************************************)
VARIABLES
    dirs,       \* the data directories on disk: DirIds -> directory
    store,      \* the committed contents of the bolt file
    tx,         \* the working copy of the open write transaction
    rdr,        \* the csv reader of the running loader
    pc,         \* where the caller is: [at, kind]
    call,       \* the running Load or Reload: [op, dir]
    result,     \* what the last finished call gave back
    calls,      \* Load/Reload calls made so far
    faults,     \* commit failures injected so far
    callStore,  \* history: the store when the running call began
    txStore,    \* history: the store when the last write transaction began
    task,       \* the download goroutines: Sources -> [pc, err]
    dest,       \* the destination file of each download
    poll        \* DownloadData: [pc, i, num, ret, from, count]

\* the state of DownloadData and its goroutines
dlVars == <<task, dest, poll>>

vars ==
    <<dirs, store, tx, rdr, pc, call, result, calls, faults, callStore,
      txStore, task, dest, poll>>

\* the four source files, in the order of DownloadData's files array
Sources == 1..4

\* DownloadData has not been called
DownloadNotStarted ==
    /\ task = [i \in Sources |-> [pc |-> "idle", err |-> ""]]
    /\ dest = [i \in Sources |-> "absent"]
    /\ poll = [pc |-> "start", i |-> 1, num |-> 0, ret |-> "", from |-> 0,
               count |-> [i \in Sources |-> 0]]

At(at, kind) == [at |-> at, kind |-> kind]
NoCall == [op |-> "", dir |-> 0]
NoResult ==
    [op |-> "", arg |-> <<>>, outcome |-> "", err |-> "", at |-> "",
     row |-> 0, val |-> <<>>]

\* the result of the running Load/Reload ending at stage at, in data row
\* row of the file when a row ended it
CallResult(outcome, err, at, row) ==
    [op |-> call.op, arg |-> call.dir, outcome |-> outcome, err |-> err,
     at |-> at, row |-> row, val |-> <<>>]

\* the result of read accessor op called with ident
ReadResult(op, ident, r) ==
    [op |-> op, arg |-> ident, outcome |-> r.outcome, err |-> r.err,
     at |-> "", row |-> 0, val |-> r.val]

\* OpenDB on a new file, nothing called yet
Init ==
    /\ dirs \in {[i \in DirIds |-> IF i = 1 THEN d ELSE AltDir] :
                  d \in VariedDirs}
    /\ store = EmptyStore
    /\ tx = EmptyStore
    /\ rdr = NewReader
    /\ pc = At("idle", "")
    /\ call = NoCall
    /\ result = NoResult
    /\ calls = 0
    /\ faults = 0
    /\ callStore = EmptyStore
    /\ txStore = EmptyStore
    /\ DownloadNotStarted

\* the file the running loader reads
CurFile == dirs[call.dir][pc.kind]

\* a variant for checking: Countries loaded before Runways
NextStageSwapped(kind) ==
    CASE kind = "Airports" -> At("begin", "Countries")
      [] kind = "Countries" -> At("begin", "Runways")
      [] kind = "Runways" -> At("begin", "Regions")
      [] kind = "Regions" -> At("meta", "")

\* a variant for checking: Load without its last loader
NextStageSkipsRegions(kind) ==
    CASE kind = "Airports" -> At("begin", "Runways")
      [] kind = "Runways" -> At("begin", "Countries")
      [] kind = "Countries" -> At("meta", "")
      [] kind = "Regions" -> At("meta", "")

\* the stage of Load that follows loader kind
NextStage(kind) ==
    CASE kind = "Airports" -> At("begin", "Runways")
      [] kind = "Runways" -> At("begin", "Countries")
      [] kind = "Countries" -> At("begin", "Regions")
      [] kind = "Regions" -> At("meta", "")

\* the running call returns to its caller
Return(outcome, err, at, row) ==
    /\ pc' = At("idle", "")
    /\ call' = NoCall
    /\ result' = CallResult(outcome, err, at, row)
    /\ rdr' = NewReader

\* the running call panics: the process is gone, the file stays
Panic(err, at, row) ==
    /\ pc' = At("crashed", "")
    /\ call' = NoCall
    /\ result' = CallResult("panic", err, at, row)
    /\ rdr' = NewReader

(***************************************************************************)
(* Load.                                                                   *)
(***************************************************************************)
\* the caller calls Load(dataDir)
LoadCall(d) ==
    /\ pc.at = "idle"
    /\ calls < MaxCalls
    /\ calls' = calls + 1
    /\ call' = [op |-> "Load", dir |-> d]
    /\ pc' = At("begin", "Airports")
    /\ result' = NoResult
    /\ callStore' = store
    /\ UNCHANGED <<dlVars, dirs, store, tx, rdr, faults, txStore>>

\* a loader cannot open its file and returns the error
LoaderOpenFails ==
    /\ pc.at = "begin"
    /\ ~CurFile.open
    /\ Return("error", "open", pc.kind, 0)
    /\ UNCHANGED <<dlVars, dirs, store, tx, calls, faults, callStore, txStore>>

\* a loader opens its file, skips the header, begins the transaction and
\* creates its bucket
LoaderBegin ==
    /\ pc.at = "begin"
    /\ CurFile.open
    /\ rdr' = Read(LoaderReader(pc.kind), CurFile.lines).r
    /\ tx' = CreateBucketIfNotExists(store, pc.kind)
    /\ txStore' = store
    /\ pc' = At("rows", pc.kind)
    /\ UNCHANGED <<dlVars, dirs, store, call, result, calls, faults, callStore>>

\* the data row the reader is about to read (the header is line 1)
CurRow == rdr.pos - 1

\* one pass of the row loop that writes a record
LoaderRow ==
    /\ pc.at = "rows"
    /\ \E s \in {LoopStep(pc.kind, tx, rdr, CurFile.lines)} :
           /\ s.outcome = "ok"
           /\ rdr' = s.r
           /\ tx' = s.st
    /\ UNCHANGED <<dlVars, dirs, store, pc, call, result, calls, faults, callStore,
                   txStore>>

\* one pass of the row loop that ends the closure with an error: the reader
\* refuses the record or the store refuses the write
LoaderRowError ==
    /\ pc.at = "rows"
    /\ \E s \in {LoopStep(pc.kind, tx, rdr, CurFile.lines)} :
           /\ s.outcome = "error"
           /\ store' = Update(store, s.st, "error")
           /\ tx' = store'
           /\ Return("error", s.err, pc.kind, CurRow)
    /\ UNCHANGED <<dlVars, dirs, calls, faults, callStore, txStore>>

\* one pass of the row loop that indexes past the end of the record
LoaderRowPanic ==
    /\ pc.at = "rows"
    /\ \E s \in {LoopStep(pc.kind, tx, rdr, CurFile.lines)} :
           /\ s.outcome = "panic"
           /\ store' = Update(store, s.st, "panic")
           /\ tx' = store'
           /\ Panic(s.err, pc.kind, CurRow)
    /\ UNCHANGED <<dlVars, dirs, calls, faults, callStore, txStore>>

\* a variant for checking: a loader that sets the flag in its own
\* transaction
LoaderCommitSetsFlag ==
    /\ pc.at = "rows"
    /\ LoopStep(pc.kind, tx, rdr, CurFile.lines).outcome = "eof"
    /\ store' = Update(store, WriteMeta(tx).st, "ok")
    /\ tx' = store'
    /\ pc' = NextStage(pc.kind)
    /\ rdr' = NewReader
    /\ UNCHANGED <<dlVars, dirs, call, result, calls, faults, callStore, txStore>>

\* end of input: the closure returns nil and the transaction commits
LoaderCommit ==
    /\ pc.at = "rows"
    /\ LoopStep(pc.kind, tx, rdr, CurFile.lines).outcome = "eof"
    /\ store' = Update(store, tx, "ok")
    /\ tx' = store'
    /\ pc' = NextStage(pc.kind)
    /\ rdr' = NewReader
    /\ UNCHANGED <<dlVars, dirs, call, result, calls, faults, callStore, txStore>>

\* end of input, and the commit fails in the store (disk I/O)
LoaderCommitFails ==
    /\ pc.at = "rows"
    /\ LoopStep(pc.kind, tx, rdr, CurFile.lines).outcome = "eof"
    /\ faults < MaxFaults
    /\ faults' = faults + 1
    /\ store' = Update(store, tx, "error")
    /\ tx' = store'
    /\ Return("error", "commit", pc.kind, 0)
    /\ UNCHANGED <<dlVars, dirs, calls, callStore, txStore>>

\* Load's last transaction writes Meta/IsPopulated and Load returns nil
MetaWrite ==
    /\ pc.at = "meta"
    /\ LET w == WriteMeta(store)
       IN  /\ store' = Update(store, w.st, IF w.err = "" THEN "ok" ELSE "error")
           /\ tx' = store'
           /\ Return(IF w.err = "" THEN "ok" ELSE "error", w.err, "Meta", 0)
    /\ txStore' = store
    /\ UNCHANGED <<dlVars, dirs, calls, faults, callStore>>

\* Load's last transaction fails to commit
MetaWriteFails ==
    /\ pc.at = "meta"
    /\ faults < MaxFaults
    /\ faults' = faults + 1
    /\ store' = Update(store, WriteMeta(store).st, "error")
    /\ tx' = store'
    /\ Return("error", "commit", "Meta", 0)
    /\ txStore' = store
    /\ UNCHANGED <<dlVars, dirs, calls, callStore>>

(***************************************************************************)
(* Reload.                                                                 *)
(***************************************************************************)
\* the caller calls Reload(dataDir)
ReloadCall(d) ==
    /\ pc.at = "idle"
    /\ calls < MaxCalls
    /\ calls' = calls + 1
    /\ call' = [op |-> "Reload", dir |-> d]
    /\ pc' = At("delete", "")
    /\ result' = NoResult
    /\ callStore' = store
    /\ UNCHANGED <<dlVars, dirs, store, tx, rdr, faults, txStore>>

\* Reload's transaction deletes the five buckets, commits, and Load begins
ReloadDelete ==
    /\ pc.at = "delete"
    /\ LET d == DeleteBuckets(store, ReloadOrder)
       IN  /\ store' = Update(store, d.st, IF d.err = "" THEN "ok" ELSE "error")
           /\ tx' = store'
           /\ IF d.err = ""
                THEN /\ pc' = At("begin", "Airports")
                     /\ UNCHANGED <<call, result, rdr>>
              ELSE Return("error", d.err, "delete", 0)
    /\ txStore' = store
    /\ UNCHANGED <<dlVars, dirs, calls, faults, callStore>>

\* Reload's transaction fails to commit: Reload returns without loading
ReloadDeleteFails ==
    /\ pc.at = "delete"
    /\ faults < MaxFaults
    /\ faults' = faults + 1
    /\ store' = Update(store, DeleteBuckets(store, ReloadOrder).st, "error")
    /\ tx' = store'
    /\ Return("error", "commit", "delete", 0)
    /\ txStore' = store
    /\ UNCHANGED <<dlVars, dirs, calls, callStore>>

\* a variant for checking: the deletions made before the failing one stay
ReloadDeleteErrorKeeps ==
    /\ pc.at = "delete"
    /\ faults < MaxFaults
    /\ faults' = faults + 1
    /\ \E k \in 1..Len(ReloadOrder) :
         store' = DeleteBuckets(store, SubSeq(ReloadOrder, 1, k - 1)).st
    /\ tx' = store'
    /\ Return("error", "delete", "delete", 0)
    /\ txStore' = store
    /\ UNCHANGED <<dlVars, dirs, calls, callStore>>

\* the deletion of the k-th bucket fails in the store for a reason other
\* than "bucket not found": the closure returns the wrapped error, the
\* transaction with the deletions made before it is rolled back, and Reload
\* returns without calling Load
ReloadDeleteError ==
    /\ pc.at = "delete"
    /\ faults < MaxFaults
    /\ faults' = faults + 1
    /\ \E k \in 1..Len(ReloadOrder) :
         store' = Update(store,
                         DeleteBuckets(store, SubSeq(ReloadOrder, 1, k - 1)).st,
                         "error")
    /\ tx' = store'
    /\ Return("error", "delete", "delete", 0)
    /\ txStore' = store
    /\ UNCHANGED <<dlVars, dirs, calls, callStore>>

(***************************************************************************)
(* The read accessors, called between Load/Reload calls.                   *)
(***************************************************************************)
AirportIdents == {KS, KB, ZZ}
CountryIdents == {US, CA, ZZ}
RegionIdents == {<<"U", "W">>, <<"C", "B">>, ZZ}

ReadOps ==
    {"Populated", "GetAirport", "GetRunways", "GetCountry", "GetRegion"}

\* a read call gives back r: a panic ends the process.  A read leaves the
\* store as it is, so a read that follows a read reaches no state that the
\* second read alone does not reach: only the first of a run is taken.
ReadReturns(op, ident, r) ==
    /\ pc.at = "idle"
    /\ result.op \notin ReadOps
    /\ result' = ReadResult(op, ident, r)
    /\ pc' = IF r.outcome = "panic" THEN At("crashed", "") ELSE pc
    /\ UNCHANGED <<dlVars, dirs, store, tx, rdr, call, calls, faults, callStore,
                   txStore>>

PopulatedCall ==
    ReadReturns("Populated", <<>>, Ret("ok", "", <<Populated(store)>>))

GetAirportCall(ident) ==
    ReadReturns("GetAirport", ident, GetAirport(store, ident))

GetRunwaysCall(ident) ==
    ReadReturns("GetRunways", ident, GetRunways(store, ident))

GetCountryCall(ident) ==
    ReadReturns("GetCountry", ident, GetCountry(store, ident))

GetRegionCall(ident) ==
    ReadReturns("GetRegion", ident, GetRegion(store, ident))

\* after a panic the program is started again and opens the same file:
\* the new process holds no result of an earlier call
OpenDB ==
    /\ pc.at = "crashed"
    /\ pc' = At("idle", "")
    /\ result' = NoResult
    /\ UNCHANGED <<dlVars, dirs, store, tx, rdr, call, calls, faults, callStore,
                   txStore>>

Next ==
    \/ \E d \in DirIds : LoadCall(d)
    \/ \E d \in DirIds : ReloadCall(d)
    \/ LoaderOpenFails
    \/ LoaderBegin
    \/ LoaderRow
    \/ LoaderRowError
    \/ LoaderRowPanic
    \/ LoaderCommit
    \/ LoaderCommitFails
    \/ MetaWrite
    \/ MetaWriteFails
    \/ ReloadDelete
    \/ ReloadDeleteFails
    \/ ReloadDeleteError
    \/ PopulatedCall
    \/ \E ident \in AirportIdents : GetAirportCall(ident)
    \/ \E ident \in AirportIdents : GetRunwaysCall(ident)
    \/ \E ident \in CountryIdents : GetCountryCall(ident)
    \/ \E ident \in RegionIdents : GetRegionCall(ident)
    \/ OpenDB

Spec == Init /\ [][Next]_vars

(***************************************************************************)
(* Populated() on a file that exists already: OpenDB opens whatever bolt   *)
(* file is at the path, so Meta may hold anything.                         *)
(***************************************************************************)
OtherKey == <<"V">>

MetaValues == SeqsUpTo({TBool(TRUE), TBool(FALSE), TNil, TInt(1)}, MaxBytes)

MetaBuckets ==
    {NilBucket}
      \cup {[ok |-> TRUE, kv |-> kv] :
               kv \in UNION {[K -> MetaValues] :
                               K \in SUBSET {IsPopulatedKey, OtherKey}}}

InitMeta ==
    /\ dirs = [i \in DirIds |-> IF i = 1 THEN BaseDir ELSE AltDir]
    /\ store \in {[EmptyStore EXCEPT !["Meta"] = m] : m \in MetaBuckets}
    /\ tx = store
    /\ rdr = NewReader
    /\ pc = At("idle", "")
    /\ call = NoCall
    /\ result = NoResult
    /\ calls = 0
    /\ faults = 0
    /\ callStore = store
    /\ txStore = store
    /\ DownloadNotStarted

NextMeta == PopulatedCall

SpecMeta == InitMeta /\ [][NextMeta]_vars

(***************************************************************************)
(* Numeric columns: Load from files whose airport row and runway row carry *)
(* an arbitrary short text in a numeric column (elevation_ft, length_ft).  *)
(***************************************************************************)
NumericTexts == SeqsUpTo({"-", "9", "x"}, MaxText)

\* the directory whose numeric columns hold text
TextDir(text) ==
    [BaseDir EXCEPT
       !.Airports.lines = <<Header(18), AirportRow(KS, <<"S", "E", "A">>, text)>>,
       !.Runways.lines = <<Header(21), RunwayRow(KS, text, E16L, E34R)>>]

InitParse ==
    /\ dirs \in {[i \in DirIds |-> TextDir(text)] : text \in NumericTexts}
    /\ store = EmptyStore
    /\ tx = EmptyStore
    /\ rdr = NewReader
    /\ pc = At("idle", "")
    /\ call = NoCall
    /\ result = NoResult
    /\ calls = 0
    /\ faults = 0
    /\ callStore = EmptyStore
    /\ txStore = EmptyStore
    /\ DownloadNotStarted

NextParse ==
    \/ LoadCall(1)
    \/ LoaderBegin
    \/ LoaderRow
    \/ LoaderCommit
    \/ MetaWrite
    \/ GetAirportCall(KS)
    \/ GetRunwaysCall(KS)

SpecParse == InitParse /\ [][NextParse]_vars

(***************************************************************************)
(* Readers beside a writer.  An accessor called from another goroutine     *)
(* while Load runs opens a read transaction (db.View), which reads the     *)
(* last committed state of the file; the loader's writes are in its own    *)
(* write transaction until db.Update commits.                              *)
(***************************************************************************)
\* a variant for checking: a reader that sees the writer's working copy
SnapshotDirty == tx

\* what a read transaction begun now reads
Snapshot == store

\* an accessor returns r in another goroutine while Load is running; a
\* panic ends the process, and the open write transaction with it
ConcurrentRead(op, ident, r) ==
    /\ pc.at \in {"begin", "rows", "meta"}
    /\ result' = ReadResult(op, ident, r)
    /\ IF r.outcome = "panic"
         THEN /\ pc' = At("crashed", "")
              /\ call' = NoCall
              /\ tx' = store
              /\ rdr' = NewReader
       ELSE UNCHANGED <<pc, call, tx, rdr>>
    /\ UNCHANGED <<dlVars, dirs, store, calls, faults, callStore, txStore>>

ConcurrentGetAirport(ident) ==
    ConcurrentRead("GetAirport", ident, GetAirport(Snapshot, ident))

ConcurrentGetRunways(ident) ==
    ConcurrentRead("GetRunways", ident, GetRunways(Snapshot, ident))

ConcurrentGetCountry(ident) ==
    ConcurrentRead("GetCountry", ident, GetCountry(Snapshot, ident))

ConcurrentGetRegion(ident) ==
    ConcurrentRead("GetRegion", ident, GetRegion(Snapshot, ident))

\* OpenDB on a new file; a first Load populates it from either directory,
\* and a second Load then runs on the populated file
InitConc ==
    /\ dirs = [i \in DirIds |-> IF i = 1 THEN BaseDir ELSE AltDir]
    /\ store = EmptyStore
    /\ tx = EmptyStore
    /\ rdr = NewReader
    /\ pc = At("idle", "")
    /\ call = NoCall
    /\ result = NoResult
    /\ calls = 0
    /\ faults = 0
    /\ callStore = EmptyStore
    /\ txStore = EmptyStore
    /\ DownloadNotStarted

NextConc ==
    \/ \E d \in DirIds : LoadCall(d)
    \/ LoaderBegin
    \/ LoaderRow
    \/ LoaderCommit
    \/ MetaWrite
    \/ \E ident \in AirportIdents : ConcurrentGetAirport(ident)
    \/ \E ident \in AirportIdents : ConcurrentGetRunways(ident)
    \/ \E ident \in CountryIdents : ConcurrentGetCountry(ident)
    \/ \E ident \in RegionIdents : ConcurrentGetRegion(ident)

SpecConc == InitConc /\ [][NextConc]_vars

(***************************************************************************)
(* DownloadData.  It starts one goroutine per source file, each with an    *)
(* unbuffered channel of its own, and polls the channels in turn with a    *)
(* select that has a default branch.  A goroutine sends once: nil, or the  *)
(* error that ended it.  A send on an unbuffered channel completes only    *)
(* when the receiver takes it.                                             *)
(***************************************************************************)
dbVars ==
    <<dirs, store, tx, rdr, pc, call, result, calls, faults, callStore,
      txStore>>

\* a variant for checking: no signal taken for a failure
FailedNever(e) == FALSE

\* `if err != nil` on what a goroutine sent ("" is nil)
Failed(e) == e # ""

\* os.Stat or os.Mkdir fails: DownloadData returns before it starts anything
StatFails ==
    /\ poll.pc = "start"
    /\ poll' = [poll EXCEPT !.pc = "returned", !.ret = "err"]
    /\ UNCHANGED <<task, dest, dbVars>>

\* the directory is there or has been made: the four goroutines are started
Spawn ==
    /\ poll.pc = "start"
    /\ poll' = [poll EXCEPT !.pc = "poll"]
    /\ task' = [i \in Sources |-> [pc |-> "create", err |-> ""]]
    /\ UNCHANGED <<dest, dbVars>>

\* downloadDataFile: os.Create makes (or truncates) the destination file
CreateOk(i) ==
    /\ task[i].pc = "create"
    /\ task' = [task EXCEPT ![i].pc = "fetch"]
    /\ dest' = [dest EXCEPT ![i] = "empty"]
    /\ UNCHANGED <<poll, dbVars>>

\* os.Create fails: the goroutine goes to send the error
CreateFails(i) ==
    /\ task[i].pc = "create"
    /\ task' = [task EXCEPT ![i] = [pc |-> "send", err |-> "create"]]
    /\ UNCHANGED <<dest, poll, dbVars>>

\* http.Get fails: the goroutine goes to send the error
GetFails(i) ==
    /\ task[i].pc = "fetch"
    /\ task' = [task EXCEPT ![i] = [pc |-> "send", err |-> "get"]]
    /\ UNCHANGED <<dest, poll, dbVars>>

\* the response status is not 200: the goroutine goes to send the error,
\* and closes and removes the file after the send
BadStatus(i) ==
    /\ task[i].pc = "fetch"
    /\ task' = [task EXCEPT ![i] = [pc |-> "send", err |-> "status"]]
    /\ UNCHANGED <<dest, poll, dbVars>>

\* io.Copy fails part of the way: the goroutine goes to send the error
CopyFails(i) ==
    /\ task[i].pc = "fetch"
    /\ task' = [task EXCEPT ![i] = [pc |-> "send", err |-> "copy"]]
    /\ dest' = [dest EXCEPT ![i] = "partial"]
    /\ UNCHANGED <<poll, dbVars>>

\* io.Copy writes the whole body: the goroutine goes to send nil
CopyOk(i) ==
    /\ task[i].pc = "fetch"
    /\ task' = [task EXCEPT ![i] = [pc |-> "send", err |-> ""]]
    /\ dest' = [dest EXCEPT ![i] = "complete"]
    /\ UNCHANGED <<poll, dbVars>>

\* after the send of the status error: out.Close(), os.Remove(fullPath)
Remove(i) ==
    /\ task[i].pc = "remove"
    /\ task' = [task EXCEPT ![i].pc = "done"]
    /\ dest' = [dest EXCEPT ![i] = "absent"]
    /\ UNCHANGED <<poll, dbVars>>

\* a variant for checking: the loop test never ends the loop
AdvanceNoExit(p) ==
    IF p.i < 4 THEN [p EXCEPT !.i = p.i + 1] ELSE [p EXCEPT !.i = 1]

\* the poll loop after the select on channel p.i: the next channel, and
\* after the last one the test numDownloaded < len(files)
Advance(p) ==
    IF p.i < 4 THEN [p EXCEPT !.i = p.i + 1]
    ELSE IF p.num < 4 THEN [p EXCEPT !.i = 1]
    ELSE [p EXCEPT !.pc = "returned", !.ret = "nil"]

\* case err = <-c: the goroutine of channel poll.i is at its send; the
\* send completes, and DownloadData returns the error or counts the file
Receive ==
    /\ poll.pc = "poll"
    /\ task[poll.i].pc = "send"
    /\ \E i \in {poll.i} : \E e \in {task[i].err} :
         /\ task' = [task EXCEPT
                       ![i].pc = IF e = "status" THEN "remove" ELSE "done"]
         /\ poll' = IF Failed(e)
                      THEN [poll EXCEPT !.pc = "returned", !.ret = "err",
                                        !.from = i]
                    ELSE Advance([poll EXCEPT !.num = @ + 1,
                                              !.count[i] = @ + 1])
    /\ UNCHANGED <<dest, dbVars>>

\* default: nothing is being sent on channel poll.i; sleep, go on
Sleep ==
    /\ poll.pc = "poll"
    /\ task[poll.i].pc # "send"
    /\ poll' = Advance(poll)
    /\ UNCHANGED <<task, dest, dbVars>>

InitDownload ==
    /\ dirs = [i \in DirIds |-> IF i = 1 THEN BaseDir ELSE AltDir]
    /\ store = EmptyStore
    /\ tx = EmptyStore
    /\ rdr = NewReader
    /\ pc = At("idle", "")
    /\ call = NoCall
    /\ result = NoResult
    /\ calls = 0
    /\ faults = 0
    /\ callStore = EmptyStore
    /\ txStore = EmptyStore
    /\ DownloadNotStarted

NextDownload ==
    \/ StatFails
    \/ Spawn
    \/ \E i \in Sources : CreateOk(i)
    \/ \E i \in Sources : CreateFails(i)
    \/ \E i \in Sources : GetFails(i)
    \/ \E i \in Sources : BadStatus(i)
    \/ \E i \in Sources : CopyFails(i)
    \/ \E i \in Sources : CopyOk(i)
    \/ \E i \in Sources : Remove(i)
    \/ Receive
    \/ Sleep

SpecDownload == InitDownload /\ [][NextDownload]_vars

\* the steps of the goroutine of source i
TaskStep(i) ==
    \/ CreateOk(i)
    \/ CreateFails(i)
    \/ GetFails(i)
    \/ BadStatus(i)
    \/ CopyFails(i)
    \/ CopyOk(i)
    \/ Remove(i)

\* the steps of the goroutine that called DownloadData
MainStep == StatFails \/ Spawn \/ Receive \/ Sleep

\* The Go scheduler runs every goroutine that can run, and time.Sleep
\* returns: the caller goes on polling while it has not returned.  Each
\* started goroutine goes on while it can, its file and network calls
\* returning one way or the other, so each comes to its send; a goroutine
\* at its send can go on only when the caller receives from its channel.
SpecDownloadFair ==
    /\ SpecDownload
    /\ WF_vars(MainStep)
    /\ \A i \in Sources : WF_vars(TaskStep(i))

(***************************************************************************)
(* Properties.                                                             *)
(***************************************************************************)
Loaders == {"Airports", "Runways", "Countries", "Regions"}

\* the last call was a Load or Reload and it has ended
WriteEnded ==
    /\ result.op \in {"Load", "Reload"}
    /\ pc.at \in {"idle", "crashed"}

\* the last call, a Load or Reload, ended because loader result.at failed
LoaderFailed ==
    /\ WriteEnded
    /\ result.outcome \in {"error", "panic"}
    /\ result.at \in Loaders

\* the last call, a Load or Reload, ended at data row result.row because of
\* the row's shape: the reader refused its field count, or a column index
\* ran past its end
RowShapeFault ==
    /\ LoaderFailed
    /\ result.row >= 1
    /\ result.err \in {"read", "index out of range"}

\* The steps of a call and the call run as a whole agree: when a Load or
\* Reload that met no failure of the store (of a commit, of a deletion) has
\* ended, the store and the outcome are those of RunLoad/RunReload on the
\* store the call began with.
StepsAgreeWithRun ==
    (WriteEnded /\ result.err \notin {"commit", "delete"}) =>
        LET r == IF result.op = "Load"
                   THEN RunLoad(callStore, dirs[result.arg])
                 ELSE RunReload(callStore, dirs[result.arg])
        IN  /\ store = r.st
            /\ result.outcome = r.outcome
            /\ result.err = r.err

\* C1: if a loader fails during Load, then after Load has returned
\* Populated() is false, whatever the store was before the call.
C1_FailedLoadUnpopulated ==
    (LoaderFailed /\ result.op = "Load") => ~Populated(store)

\* C2: during a Load on a store whose flag is not set, Populated() is false
\* at every point up to the Meta transaction (also with all four buckets
\* written), and the flag turns true only in the step that commits Meta.
C2_UnsetBeforeMeta ==
    (/\ pc.at \in {"begin", "rows", "meta"}
     /\ call.op = "Load" => ~Populated(callStore))
        => ~Populated(store)

C2_SetOnlyByMeta ==
    (~Populated(store) /\ Populated(store'))
        => (pc.at = "meta" /\ pc'.at = "idle" /\ result'.outcome = "ok")

C2_LoadOrdering == [] C2_UnsetBeforeMeta /\ [][C2_SetOnlyByMeta]_vars

\* C2 witness: Load stands before the Meta transaction, all four buckets
\* written and committed, and the flag is still unset.
C2_Witness ==
    /\ pc.at = "meta"
    /\ call.op = "Load"
    /\ \A k \in Loaders : store[k].ok /\ DOMAIN store[k].kv # {}
    /\ ~Populated(store)

\* C3: when a row-shape fault ends a loader at row N >= 1, nothing the
\* loader wrote persists: the store is the one its transaction began with.
C3_FaultRollsBack ==
    RowShapeFault => store = txStore

\* C3 witness: on a store without the bucket a loader failed at its second
\* row, after it had written the first; the bucket is still absent.
C3_Witness ==
    /\ RowShapeFault
    /\ result.row = 2
    /\ ~store[result.at].ok
    /\ LET lines == dirs[result.arg][result.at].lines
       IN  PutRecord(result.at, CreateBucketIfNotExists(store, result.at),
                     lines[2]).outcome = "ok"

\* C4: a data row with the wrong column count makes the loader return an
\* error value; no loader ends by panicking.
C4_WrongCountIsError ==
    (WriteEnded /\ result.at \in Loaders) => result.outcome # "panic"

\* C5: a loader that accepts its file, run again at once on the same file,
\* succeeds again and leaves the store (keys and value bytes, the nested
\* runway buckets included) as the first run left it; so does Load.
C5_LoaderIdempotent ==
    pc.at = "begin" =>
        LET one == RunLoader(pc.kind, store, CurFile)
            two == RunLoader(pc.kind, one.st, CurFile)
        IN  one.outcome = "ok" => two = one

C5_LoadIdempotent ==
    (pc.at = "begin" /\ pc.kind = "Airports") =>
        LET one == RunLoad(store, dirs[call.dir])
            two == RunLoad(one.st, dirs[call.dir])
        IN  one.outcome = "ok" => two = one

C5_Idempotence ==
    /\ C5_LoaderIdempotent
    /\ C5_LoadIdempotent
    /\ StepsAgreeWithRun

\* C5 witness: a Load on a store that a Load from the same directory had
\* already populated has returned nil and the store is what it was.
C5_Witness ==
    /\ WriteEnded
    /\ result.op = "Load"
    /\ result.outcome = "ok"
    /\ Populated(callStore)
    /\ callStore = RunLoad(EmptyStore, dirs[result.arg]).st
    /\ store = callStore

\* the highest column loader kind reads, and the column it takes the key
\* (for Runways: the nested bucket's name) from
MaxColOf(kind) ==
    CASE kind = "Airports" -> AirportsMaxCol
      [] kind = "Runways" -> RunwaysMaxCol
      [] kind = "Countries" -> CountriesMaxCol
      [] kind = "Regions" -> RegionsMaxCol

KeyColOf(kind) == IF kind = "Runways" THEN 2 ELSE 1

\* a file the loader of its kind is meant for: it opens, has a header, and
\* every data row has the header's width (Runways: any width), every column
\* the loader reads, and a key
WellFormedFile(kind, f) ==
    /\ f.open
    /\ Len(f.lines) >= 1
    /\ \A i \in 2..Len(f.lines) :
         /\ Len(f.lines[i]) > MaxColOf(kind)
         /\ kind # "Runways" => Len(f.lines[i]) = Len(f.lines[1])
         /\ Col(f.lines[i], KeyColOf(kind)) # <<>>

WellFormedDir(dir) == \A k \in Loaders : WellFormedFile(k, dir[k])

\* C6: Reload on a store with none of the five buckets, from well-formed
\* files and with no failure of the store itself (of a commit, or of a
\* deletion for another reason than "bucket not found"), returns nil and
\* leaves the store that Load leaves on an empty store, with Populated()
\* true.
C6_ReloadOnFreshStore ==
    (/\ WriteEnded
     /\ result.op = "Reload"
     /\ callStore = EmptyStore
     /\ result.err \notin {"commit", "delete"}
     /\ WellFormedDir(dirs[result.arg]))
        => /\ result.outcome = "ok"
           /\ store = RunLoad(EmptyStore, dirs[result.arg]).st
           /\ Populated(store)

\* C6 witness: a Reload that began on the empty store has returned nil and
\* the store is populated.
C6_Witness ==
    /\ WriteEnded
    /\ result.op = "Reload"
    /\ result.outcome = "ok"
    /\ callStore = EmptyStore
    /\ Populated(store)
    /\ \A k \in Loaders : store[k].ok

\* C7: Populated() gives true exactly when Meta exists, holds the key
\* IsPopulated, and its value decodes without error to true; otherwise it
\* gives false; it never gives an error.
C7_PopulatedIff ==
    result.op = "Populated" =>
        LET b == store["Meta"]
            u == UnmarshalBool(b.kv[IsPopulatedKey])
        IN  /\ result.outcome = "ok"
            /\ result.val[1] <=>
                 (/\ b.ok
                  /\ IsPopulatedKey \in DOMAIN b.kv
                  /\ u.err = ""
                  /\ u.v)

\* C7 witness: Meta holds IsPopulated with a value that does not decode to
\* a bool, and Populated() has given false.
C7_Witness ==
    /\ result.op = "Populated"
    /\ result.val = <<FALSE>>
    /\ store["Meta"].ok
    /\ IsPopulatedKey \in DOMAIN store["Meta"].kv
    /\ UnmarshalBool(store["Meta"].kv[IsPopulatedKey]).err = "invalid code"

\* the bucket a single-record accessor reads
BucketOf(op) ==
    CASE op = "GetAirport" -> "Airports"
      [] op = "GetCountry" -> "Countries"
      [] op = "GetRegion" -> "Regions"

\* C8: GetAirport, GetCountry and GetRegion never crash, and give an error
\* when the bucket or the key is absent.
C8_GetAbsentIsError ==
    result.op \in {"GetAirport", "GetCountry", "GetRegion"} =>
        LET b == store[BucketOf(result.op)]
        IN  /\ result.outcome # "panic"
            /\ (~b.ok \/ result.arg \notin DOMAIN b.kv)
                 => result.outcome = "error"

\* the single-record read of the bucket of loader kind
GetOf(kind, st, ident) ==
    CASE kind = "Airports" -> GetAirport(st, ident)
      [] kind = "Countries" -> GetCountry(st, ident)
      [] kind = "Regions" -> GetRegion(st, ident)

\* the record loader kind derives from a row
RecordOf(kind, record) ==
    CASE kind = "Airports" -> AirportOfRecord(record)
      [] kind = "Countries" -> CountryOfRecord(record)
      [] kind = "Regions" -> RegionOfRecord(record)

IdentsOf(kind) ==
    CASE kind = "Airports" -> AirportIdents
      [] kind = "Countries" -> CountryIdents
      [] kind = "Regions" -> RegionIdents

\* the data rows of lines whose column col holds code
RowsWith(lines, col, code) ==
    {i \in 2..Len(lines) : Col(lines[i], col) = code}

\* the last of a non-empty set of rows
LastOf(rows) == CHOOSE i \in rows : \A j \in rows : j <= i

\* a loader with a single-record accessor is about to run
FlatLoaderBegins == pc.at = "begin" /\ pc.kind # "Runways"

\* after the loader about to run has succeeded, the accessor gives for a
\* code found in a data row the record of the last such row
C9_PresentCodes ==
    FlatLoaderBegins =>
        LET lines == CurFile.lines
            r == RunLoader(pc.kind, store, CurFile)
        IN  r.outcome = "ok" =>
              \A i \in 2..Len(lines) :
                 LET code == Col(lines[i], 1)
                 IN  GetOf(pc.kind, r.st, code) =
                       Ret("ok", "",
                           <<RecordOf(pc.kind,
                                      lines[LastOf(RowsWith(lines, 1, code))])>>)

\* C9 as claimed: after a loader succeeds, the accessor gives for every code
\* in a data row the record derived from the last row with that code, and
\* fails for a code that is in no row.
C9_GetAfterLoad ==
    /\ C9_PresentCodes
    /\ FlatLoaderBegins =>
         LET r == RunLoader(pc.kind, store, CurFile)
         IN  r.outcome = "ok" =>
               \A ident \in IdentsOf(pc.kind) :
                  RowsWith(CurFile.lines, 1, ident) = {}
                    => GetOf(pc.kind, r.st, ident).outcome = "error"

\* C9 as amended: ... and fails for a code that is in no row and was not
\* stored in the bucket before the loader ran.
C9_GetAfterLoadAmended ==
    /\ C9_PresentCodes
    /\ FlatLoaderBegins =>
         LET r == RunLoader(pc.kind, store, CurFile)
         IN  r.outcome = "ok" =>
               \A ident \in IdentsOf(pc.kind) :
                  (/\ RowsWith(CurFile.lines, 1, ident) = {}
                   /\ ident \notin DOMAIN store[pc.kind].kv)
                    => GetOf(pc.kind, r.st, ident).outcome = "error"
    /\ StepsAgreeWithRun

\* C9 witness: after a Load from a countries file whose two rows both bear
\* US, GetCountry(US) has given the record of the second row.
C9_Witness ==
    /\ result.op = "GetCountry"
    /\ result.arg = US
    /\ result.outcome = "ok"
    /\ result.val = <<[Code |-> US, Name |-> <<"U", "N">>]>>
    /\ Len(dirs[1]["Countries"].lines) = 3
    /\ GetCountry(store, ZZ).outcome = "error"

\* the key under which a runway record was stored, from its own fields
KeyOfRunway(rwy) == rwy.End1Name \o <<"/">> \o rwy.End2Name

\* the keys of the rows of airport apt in a runways file
KeysIn(lines, apt) ==
    {Col(lines[i], 8) \o <<"/">> \o Col(lines[i], 14) :
       i \in RowsWith(lines, 2, apt)}

\* the rows of airport apt with key key
RowsWithKey(lines, apt, key) ==
    {i \in RowsWith(lines, 2, apt) :
       Col(lines[i], 8) \o <<"/">> \o Col(lines[i], 14) = key}

\* GetRunways(apt) on store st gives one record per key of apt's rows in
\* lines, each of apt, in ascending byte order of the key
RunwaysAsInFile(st, lines, apt) ==
    LET g == GetRunways(st, apt)
        out == g.val
    IN  /\ g.outcome = "ok"
        /\ Len(out) = Cardinality(KeysIn(lines, apt))
        /\ \A i \in 1..Len(out) :
             /\ out[i].Airport = apt
             /\ KeyOfRunway(out[i]) \in KeysIn(lines, apt)
             /\ out[i] = RunwayOfRecord(
                  lines[LastOf(RowsWithKey(lines, apt, KeyOfRunway(out[i])))])
        /\ \A i, j \in 1..Len(out) :
             i < j => BytesLess(KeyOfRunway(out[i]), KeyOfRunway(out[j]))

\* C10 as claimed: after loadRunways succeeds, GetRunways(A), for every
\* airport A of the file, gives exactly one record per distinct key among
\* A's rows, none of another airport, in ascending order of the key.
C10_RunwaysOfAirport ==
    (pc.at = "begin" /\ pc.kind = "Runways") =>
        LET lines == CurFile.lines
            r == RunLoader("Runways", store, CurFile)
        IN  r.outcome = "ok" =>
              \A i \in 2..Len(lines) :
                 RunwaysAsInFile(r.st, lines, Col(lines[i], 2))

\* C10 as amended: the same, for every airport A of the file of which no
\* runway was stored before loadRunways ran.
C10_RunwaysOfAirportAmended ==
    /\ (pc.at = "begin" /\ pc.kind = "Runways") =>
         LET lines == CurFile.lines
             r == RunLoader("Runways", store, CurFile)
         IN  r.outcome = "ok" =>
               \A i \in 2..Len(lines) :
                  Col(lines[i], 2) \notin DOMAIN store["Runways"].kv
                    => RunwaysAsInFile(r.st, lines, Col(lines[i], 2))
    /\ StepsAgreeWithRun

\* C10 witness: after a Load whose runways file has the rows (16L, 34R) and
\* (16C, 34C) of KS, in that order, GetRunways(KS) has given exactly the two,
\* 16C/34C first.
C10_Witness ==
    /\ result.op = "GetRunways"
    /\ result.arg = KS
    /\ result.outcome = "ok"
    /\ Len(result.val) = 2
    /\ KeyOfRunway(result.val[1]) = E16C \o <<"/">> \o E34C
    /\ KeyOfRunway(result.val[2]) = E16L \o <<"/">> \o E34R
    /\ Len(dirs[1]["Runways"].lines) = 3
    /\ Col(dirs[1]["Runways"].lines[2], 8) = E16L

\* C11: GetRunways gives an error, and does not crash or succeed, when the
\* Runways bucket is absent or holds no nested bucket of the airport.
C11_GetRunwaysAbsentIsError ==
    result.op = "GetRunways" =>
        LET b == store["Runways"]
        IN  (~b.ok \/ result.arg \notin DOMAIN b.kv)
              => result.outcome = "error"

\* the last call was a Reload that ended, not ok, in its Load phase: the
\* deletions were committed
ReloadLoadFailed ==
    /\ WriteEnded
    /\ result.op = "Reload"
    /\ result.outcome # "ok"
    /\ result.at # "delete"

\* C12: when the Load phase of Reload fails after the deletions have been
\* committed, Populated() is false after Reload, also when it was true
\* before.
C12_FailedReloadUnpopulated == ReloadLoadFailed => ~Populated(store)

\* C12 witness: a Reload on a populated store has returned a loader's error
\* and the store is unpopulated.
C12_Witness ==
    /\ ReloadLoadFailed
    /\ result.outcome = "error"
    /\ result.at \in Loaders
    /\ Populated(callStore)
    /\ ~Populated(store)

\* the last call was a Reload that ended in its deletion transaction
DeleteFailed ==
    /\ WriteEnded
    /\ result.op = "Reload"
    /\ result.at = "delete"

\* C13: when a deletion of Reload fails for a reason other than "bucket not
\* found", Reload returns the error, the store is what it was before the
\* call (all buckets and the flag), and Load is not called: the failing
\* step leads straight back to the caller.
C13_StoreAsBefore ==
    DeleteFailed =>
        /\ result.outcome = "error"
        /\ store = callStore
        /\ Populated(store) = Populated(callStore)

C13_NoLoadAfter ==
    (pc.at = "delete" /\ result'.at = "delete")
        => (pc'.at = "idle" /\ store' = store)

C13_DeleteFailure == [] C13_StoreAsBefore /\ [][C13_NoLoadAfter]_vars

\* C13 witness: on a populated store a deletion of Reload has failed, and
\* the five buckets and the flag are still there.
C13_Witness ==
    /\ DeleteFailed
    /\ result.err = "delete"
    /\ Populated(store)
    /\ \A k \in Loaders : store[k].ok /\ DOMAIN store[k].kv # {}

\* the place of loader kind in Load
IndexOf(kind) == CHOOSE i \in 1..Len(LoadOrder) : LoadOrder[i] = kind

\* C14: when loader k fails, the store is the one the loaders before k, run
\* in order and each committed, left: their records are there, nothing
\* of loader k is written, and the buckets of k and of the loaders after
\* it are what they were when Load began.
C14_LoadersInOrder ==
    LoaderFailed =>
        LET k == IndexOf(result.at)
            base == IF result.op = "Load" THEN callStore
                    ELSE DeleteBuckets(callStore, ReloadOrder).st
            pre == RunLoaders(base, dirs[result.arg],
                              SubSeq(LoadOrder, 1, k - 1))
        IN  /\ pre.outcome = "ok"
            /\ store = pre.st
            /\ \A j \in k..Len(LoadOrder) :
                 store[LoadOrder[j]] = base[LoadOrder[j]]

\* C14 witness: a Load on the empty store has failed at Countries; Airports
\* and Runways hold their records, Countries and Regions do not exist.
C14_Witness ==
    /\ LoaderFailed
    /\ result.op = "Load"
    /\ result.at = "Countries"
    /\ callStore = EmptyStore
    /\ DOMAIN store["Airports"].kv # {}
    /\ DOMAIN store["Runways"].kv # {}
    /\ ~store["Countries"].ok
    /\ ~store["Regions"].ok

\* C17: every stored runway holds the value parsed from column 11 as
\* End1Elevation and from column 12 as End1Heading, as it holds columns 17
\* and 18 as End2Elevation and End2Heading.
C17_FieldsNotSwapped ==
    (pc.at = "begin" /\ pc.kind = "Runways") =>
        LET lines == CurFile.lines
            r == RunLoader("Runways", store, CurFile)
        IN  r.outcome = "ok" =>
              \A i \in 2..Len(lines) :
                 LET apt == Col(lines[i], 2)
                     key == RunwayKey(lines[i])
                     last == lines[LastOf(RowsWithKey(lines, apt, key))]
                     rwy == UnmarshalStruct(r.st["Runways"].kv[apt][key],
                                            RunwayZero, RunwayTypes).v
                 IN  /\ rwy.End1Elevation = ParseInt(Col(last, 11)).v
                     /\ rwy.End1Heading = ParseInt(Col(last, 12)).v
                     /\ rwy.End2Elevation = ParseInt(Col(last, 17)).v
                     /\ rwy.End2Heading = ParseInt(Col(last, 18)).v

\* C19: after a Reload that returned nil, whatever the store was before,
\* the store is the one Load leaves on an empty store with the same files.
C19_ReloadEqualsFreshLoad ==
    (WriteEnded /\ result.op = "Reload" /\ result.outcome = "ok")
        => store = RunLoad(EmptyStore, dirs[result.arg]).st

\* C19 witness: a Reload has returned nil on a store that held the runways
\* of an airport absent from the current files; the airport's nested bucket
\* is gone.
C19_Witness ==
    /\ WriteEnded
    /\ result.op = "Reload"
    /\ result.outcome = "ok"
    /\ Populated(callStore)
    /\ \E apt \in DOMAIN callStore["Runways"].kv :
         apt \notin DOMAIN store["Runways"].kv

\* the text of the numeric column of the airport row and of the runway row
\* of the first directory
ElevationText == Col(dirs[1]["Airports"].lines[2], 6)
LengthText == Col(dirs[1]["Runways"].lines[2], 3)

\* the record was stored from its row with every field but field f as the
\* row gives it, and f zero when its text does not parse
ZeroWhenUnparsed(rec, whole, f, text) ==
    /\ [rec EXCEPT ![f] = 0] = [whole EXCEPT ![f] = 0]
    /\ ParseInt(text).err # "" => rec[f] = 0

\* C18: a numeric column whose text does not parse (empty, not a number,
\* out of range) is stored as zero, the row is written with its other
\* fields intact, and the loader does not fail.
C18_UnparsedIsZero ==
    /\ WriteEnded => result.outcome = "ok"
    /\ (result.op = "GetAirport" /\ Populated(store)) =>
          /\ result.outcome = "ok"
          /\ ZeroWhenUnparsed(result.val[1],
                              AirportOfRecord(dirs[1]["Airports"].lines[2]),
                              "Elevation", ElevationText)
    /\ (result.op = "GetRunways" /\ Populated(store)) =>
          /\ result.outcome = "ok"
          /\ Len(result.val) = 1
          /\ ZeroWhenUnparsed(result.val[1],
                              RunwayOfRecord(dirs[1]["Runways"].lines[2]),
                              "Length", LengthText)

\* the same for the texts that are empty or not a number
C18_SyntaxIsZero ==
    ParseInt(ElevationText).err # "range" => C18_UnparsedIsZero

\* the bucket an accessor reads, and what it gives on store st
KindOf(op) == IF op = "GetRunways" THEN "Runways" ELSE BucketOf(op)

ReadOn(op, st, ident) ==
    IF op = "GetRunways" THEN GetRunways(st, ident)
    ELSE GetOf(BucketOf(op), st, ident)

\* an accessor has returned while Load is running
ReadBesideLoad ==
    /\ pc.at \in {"begin", "rows", "meta"}
    /\ result.op \in {"GetAirport", "GetRunways", "GetCountry", "GetRegion"}

\* C20: an accessor that returns while Load is running gives what the
\* store held of its entity kind before the kind's loader ran, or what it
\* holds after the loader has committed the whole file, never a part of
\* the file; while the kind's loader is writing its rows it gives the
\* former.
C20_NoneOrAll ==
    ReadBesideLoad =>
        LET kind == KindOf(result.op)
            file == dirs[call.dir][kind]
            none == ReadResult(result.op, result.arg,
                               ReadOn(result.op, callStore, result.arg))
            all == ReadResult(result.op, result.arg,
                              ReadOn(result.op,
                                     RunLoader(kind, callStore, file).st,
                                     result.arg))
        IN  /\ result \in {none, all}
            /\ (pc.at = "rows" /\ pc.kind = kind) => result = none

\* C20 witness: loadRunways has written a row of KS into its transaction
\* and has not committed; GetRunways(KS) has returned the runways of KS
\* stored before, which are not those of the file being loaded.
C20_Witness ==
    /\ ReadBesideLoad
    /\ pc.at = "rows"
    /\ pc.kind = "Runways"
    /\ result.op = "GetRunways"
    /\ result.arg = KS
    /\ KS \in DOMAIN tx["Runways"].kv
    /\ tx["Runways"].kv[KS] # store["Runways"].kv[KS]
    /\ result.val = GetRunways(store, KS).val
    /\ result.val # GetRunways(tx, KS).val
    /\ result.val # GetRunways(RunLoader("Runways", callStore, CurFile).st,
                               KS).val

\* DownloadData has returned the error of the goroutine of source poll.from
ReturnedTaskError ==
    /\ poll.pc = "returned"
    /\ poll.ret = "err"
    /\ poll.from \in Sources

\* C15: when DownloadData returns the error of a failed download, the
\* destination file of that source is not in the data directory.
C15_FailedFileRemoved == ReturnedTaskError => dest[poll.from] = "absent"

\* C16: DownloadData returns nil only when each of the four goroutines has
\* sent nil on its channel and each was counted once; no signal is counted
\* twice; an error it returns is one a goroutine sent; and the step that
\* takes a failure from a channel is the step that returns it.
C16_NilMeansAll ==
    poll.ret = "nil" =>
        /\ poll.pc = "returned"
        /\ poll.num = 4
        /\ \A i \in Sources :
             /\ task[i] = [pc |-> "done", err |-> ""]
             /\ poll.count[i] = 1
             /\ dest[i] = "complete"

C16_CountedOnce ==
    /\ \A i \in Sources :
         /\ poll.count[i] <= 1
         /\ poll.count[i] = 1 => task[i] = [pc |-> "done", err |-> ""]
    /\ poll.num = Cardinality({i \in Sources : poll.count[i] = 1})

C16_ErrorIsSent ==
    ReturnedTaskError =>
        /\ task[poll.from].err # ""
        /\ task[poll.from].pc \in {"remove", "done"}

C16_ReturnsAtOnce ==
    \A i \in Sources :
       (task[i].pc = "send" /\ task[i].err # "" /\ task'[i].pc # "send")
         => (poll.pc = "poll" /\ poll'.pc = "returned" /\ poll'.ret = "err"
             /\ poll'.from = i)

C16_AllOrNothing ==
    /\ [] (C16_NilMeansAll /\ C16_CountedOnce /\ C16_ErrorIsSent)
    /\ [][C16_ReturnsAtOnce]_vars

\* C16 witness: DownloadData has returned nil, the four files written.
C16_Witness ==
    /\ poll.pc = "returned"
    /\ poll.ret = "nil"
    /\ \A i \in Sources : dest[i] = "complete" /\ poll.count[i] = 1

\* C21: in every state reached from an empty store by Load and Reload calls
\* of one caller, each ending well or failing at any step, Populated() true
\* implies that the buckets Airports, Runways, Countries and Regions exist.
C21_PopulatedHasBuckets ==
    Populated(store) => \A kind \in Loaders : store[kind].ok

\* C21 witness: a first call failed part of the way and left some buckets,
\* the Reload after it ended well, and the store is populated.
C21_Witness ==
    /\ WriteEnded
    /\ result.op = "Reload"
    /\ result.outcome = "ok"
    /\ ~Populated(callStore)
    /\ \E kind \in Loaders : callStore[kind].ok
    /\ Populated(store)

\* the nested buckets of Runways in st that hold no record
EmptyInner(st) ==
    {apt \in DOMAIN st["Runways"].kv : DOMAIN st["Runways"].kv[apt] = {}}

\* C23: in every state reached by Load and Reload calls, in the file and in
\* the open write transaction, each nested bucket under Runways holds at
\* least one runway record, and GetRunways never returns an empty sequence.
C23_InnerNotEmpty ==
    /\ EmptyInner(store) = {}
    /\ EmptyInner(tx) = {}
    /\ (result.op = "GetRunways" /\ result.outcome = "ok")
          => result.val # <<>>

\* C23 witness: the loader of runways.csv has made a nested bucket in its
\* transaction that the file does not have yet.
C23_Witness ==
    /\ pc = At("rows", "Runways")
    /\ \E apt \in DOMAIN tx["Runways"].kv :
         /\ apt \notin DOMAIN store["Runways"].kv
         /\ DOMAIN tx["Runways"].kv[apt] # {}

\* C22: every started download goroutine completes its send and exits, also
\* when DownloadData returns at the first failure it receives.
C22_TasksTerminate ==
    \A i \in Sources : (task[i].pc = "create") ~> (task[i].pc = "done")

\* C24: with every goroutine coming to its one send and fair scheduling,
\* DownloadData returns, nil or an error; it does not poll forever, and it
\* counts no channel twice.
C24_PollTerminates ==
    /\ (poll.pc = "start") ~> (poll.pc = "returned")
    /\ [] (poll.pc = "poll" => \A i \in Sources : poll.count[i] <= 1)

\* C24 witness: three channels were counted, the last one gave an error,
\* and DownloadData has returned it.
C24_Witness ==
    /\ poll.pc = "returned"
    /\ poll.ret = "err"
    /\ poll.num = 3
    /\ \A i \in Sources : task[i].pc \in {"done", "remove"}


=============================================================================
